---- MODULE Spec2Model ----
(***************************************************************************)
(* pylogback: the buffered rotating file handler (handlers.py), its        *)
(* time-based rolling policy with the retention sweep and its size-based   *)
(* triggering policy (policies.py), and the asynchronous handler that      *)
(* feeds the buffered handler from a bounded queue (handlers.py).          *)
(*                                                                         *)
(* Time is counted in ticks of one check_interval (1.0 s in the source).   *)
(* The cache lifetime (3600 s) and the length of a day (24 * 3600 s) are   *)
(* scaled down to a few ticks; their order, check_interval < cache         *)
(* lifetime < one day, is the source's.                                    *)
(***************************************************************************)
EXTENDS Integers, Sequences, FiniteSets, TLC

\* ------------------------------------------------------------------ bounds
MaxRecords == 3          \* records handed to emit in one run
MaxErrors == 2           \* calls of _handle_error in one run
MaxTime == 7             \* the clock stops here
MaxCalls == 3            \* calls of get_rolled_file_name by concurrent threads in one run

\* ------------------------------------------------------- program constants
CheckInterval == 1       \* SizeBasedTriggeringPolicy.check_interval = 1.0
CacheTTL == 2            \* 3600 s, scaled
DayLen == 3              \* 24 * 3600 s, scaled
Overhead == 100          \* is_triggered adds len(message) + 100

\* time.time() when the handler is constructed: two ticks before the clock
\* stops, on the second day, so that the day changes during a run
StartTime == MaxTime - 2

RecSizes == {1, 3}       \* encoded sizes of the records emit is given
AsyncRecSizes == {1, 3}  \* ... and of those the asynchronous handler is given
RecordIds == 1..MaxRecords

VARIABLES
    cfg,        \* the construction-time configuration (never changes)
    handler,    \* BaseLogbackHandler: _buffer, _buffer_size, stream, _file_lock, _metrics
    trig,       \* SizeBasedTriggeringPolicy: _last_size, _last_check
    policy,     \* TimeBasedRollingPolicy: _current_date, _current_index, _file_cache, _last_cleanup
    disk,       \* the log directory: file name -> [size, mtime, recs]
    backup,     \* the backup directory: record id -> how many times it was spilled
    now,        \* time.time()
    next_id,    \* the id the next emitted record gets
    last,       \* what the last call into the handler did (history, for stating the properties)
    queue,      \* AsyncLogbackHandler._queue
    stop_event, \* AsyncLogbackHandler._stop_event
    worker,     \* the thread running _async_writer: its position, batch and loop index
    producer,   \* the thread calling AsyncLogbackHandler.emit: its position and record
    closer,     \* the thread calling AsyncLogbackHandler.close: its position
    hist,       \* history of the asynchronous handler (for stating the properties)
    callers     \* the threads calling get_rolled_file_name: _cache_lock, their positions, the names returned

writer_vars == <<handler, trig, policy, disk, backup>>
async_vars == <<queue, stop_event, worker, producer, closer, hist>>
vars == <<cfg, handler, trig, policy, disk, backup, now, next_id, last,
          queue, stop_event, worker, producer, closer, hist, callers>>

\* ------------------------------------------------------------------- names
\* A file name of the log directory.  gz counts the ".gz" suffixes it ends in.
ActiveName == [kind |-> "active", date |-> 0, index |-> 0, gz |-> 0]
OtherName == [kind |-> "other", date |-> 0, index |-> 0, gz |-> 0]
NoName == [kind |-> "none", date |-> 0, index |-> 0, gz |-> 0]

\* f"{active_file}.{self._current_date}.{self._current_index}" and its ".gz" form
RolledName(date, index, gz) ==
    [kind |-> "rolled", date |-> date, index |-> index, gz |-> gz]

\* f"{rolled_file}.gz": one more ".gz" suffix
AppendGz(name) == [name EXCEPT !.gz = @ + 1]

\* datetime.now().strftime('%Y-%m-%d'): the day the clock is in
DateOf(t) == t \div DayLen

\* ------------------------------------------------------------------ helpers
RECURSIVE SumSizes(_)
SumSizes(buf) ==
    IF buf = <<>> THEN 0 ELSE Head(buf).size + SumSizes(Tail(buf))

RECURSIVE Ids(_)
Ids(buf) == IF buf = <<>> THEN <<>> ELSE <<Head(buf).id>> \o Ids(Tail(buf))

SeqToSet(s) == {s[i] : i \in 1..Len(s)}

PutFile(d, name, file) ==
    [n \in (DOMAIN d) \cup {name} |-> IF n = name THEN file ELSE d[n]]

DropFiles(d, names) == [n \in (DOMAIN d) \ names |-> d[n]]

\* gzip shrinks the content; the exact size is not the model's concern
GzSize(n) == (n + 1) \div 2

\* The producer holds no record
NoRecord == [id |-> 0, size |-> 0]

\* The record flush passes to shouldRollover: None
NoneRecord == [is_none |-> TRUE, msg_len |-> 0]

\* ------------------------------------------------------- triggering policy
\* SizeBasedTriggeringPolicy.is_triggered(current_file, record) at time t.
\* record is NoneRecord (what flush passes) or a record with its message length;
\* file_size is the size os.path.getsize returns, or -1 when it raises OSError.
\* Result: the policy's new state, the value returned, and whether the call
\* raised (len(record.getMessage()) on None raises AttributeError before the
\* assignment to _last_size happens).
IsTriggered(tr, record, file_size, t) ==
    IF t - tr.last_check < CheckInterval
    THEN IF record.is_none
         THEN [trig |-> tr, ret |-> FALSE, raised |-> TRUE, stat |-> FALSE]
         ELSE LET est == tr.last_size + record.msg_len + Overhead
              IN [trig |-> [tr EXCEPT !.last_size = est],
                  ret |-> est >= cfg.max_size, raised |-> FALSE, stat |-> FALSE]
    ELSE IF file_size < 0
         THEN [trig |-> tr, ret |-> FALSE, raised |-> FALSE, stat |-> TRUE]
         ELSE [trig |-> [last_size |-> file_size, last_check |-> t],
               ret |-> file_size >= cfg.max_size, raised |-> FALSE, stat |-> TRUE]

\* ----------------------------------------------------------- rolling policy
\* TimeBasedRollingPolicy._compile_pattern and _pattern_regex.match(entry.name):
\* the pattern is the configured path turned into a regular expression and
\* matched as a prefix of the bare entry name.  A pattern that carries a
\* directory part (what LogbackConfigurator passes: os.path.join(log_dir, ...))
\* matches no entry name; a bare file name matches the active file and every
\* file whose name extends it.  The unrelated file never matches.
PatternMatch(name) == name.kind # "other" /\ ~cfg.pattern_has_dir

\* TimeBasedRollingPolicy.get_rolled_file_name at time t: the policy's new
\* state and the name returned.
GetRolledFileName(p, t) ==
    LET date == DateOf(t)
        idx == (IF date # p.current_date THEN 0 ELSE p.current_index) + 1
    IN [policy |-> [p EXCEPT !.current_date = date, !.current_index = idx],
        name |-> RolledName(date, idx, IF cfg.compress THEN 1 ELSE 0)]

\* RollingPolicy._clean_cache(force=True) at time t
CleanCacheForce(p, t) == [p EXCEPT !.cached = FALSE, !.file_cache = {}, !.last_cleanup = t]

\* sorted(files_info, key=st_mtime, reverse=True).  Entries of equal mtime keep
\* the scan order, which the model fixes as: the active file, then larger
\* index first.
Newer(a, b) ==
    \/ a.mtime > b.mtime
    \/ /\ a.mtime = b.mtime
       /\ \/ a.name.kind = "active" /\ b.name.kind # "active"
          \/ /\ a.name.kind = b.name.kind
             /\ <<a.name.date, a.name.index, a.name.gz>> # <<b.name.date, b.name.index, b.name.gz>>
             /\ \/ a.name.date > b.name.date
                \/ a.name.date = b.name.date /\ a.name.index > b.name.index
                \/ a.name.date = b.name.date /\ a.name.index = b.name.index
                   /\ a.name.gz > b.name.gz

RECURSIVE SortNewestFirst(_)
SortNewestFirst(S) ==
    IF S = {} THEN <<>>
    ELSE LET top == CHOOSE x \in S : \A y \in S \ {x} : Newer(x, y)
         IN <<top>> \o SortNewestFirst(S \ {top})

\* Variant, for comparison: the walk without the age test
RECURSIVE FilesToDeleteNoAge(_, _, _)
FilesToDeleteNoAge(sorted, total_size, t) ==
    IF sorted = <<>> THEN {}
    ELSE LET e == Head(sorted)
         IN IF total_size + e.size > cfg.total_size_cap
            THEN {e.name} \cup FilesToDeleteNoAge(Tail(sorted), total_size, t)
            ELSE FilesToDeleteNoAge(Tail(sorted), total_size + e.size, t)

\* The walk of _clean_history_files over the sorted entries: the names to
\* delete, given the running total of the sizes kept so far.
RECURSIVE FilesToDelete(_, _, _)
FilesToDelete(sorted, total_size, t) ==
    IF sorted = <<>> THEN {}
    ELSE LET e == Head(sorted)
         IN IF t - e.mtime > cfg.max_history * DayLen
               \/ total_size + e.size > cfg.total_size_cap
            THEN {e.name} \cup FilesToDelete(Tail(sorted), total_size, t)
            ELSE FilesToDelete(Tail(sorted), total_size + e.size, t)

\* The directory scan of _clean_history_files: (path, stat) of the matching entries
ScanDir(d) ==
    {[name |-> n, mtime |-> d[n].mtime, size |-> d[n].size] :
        n \in {m \in DOMAIN d : PatternMatch(m)}}

\* ------------------------------------------------------------------ handler
\* What one call did: the history the properties are stated over.
NoEvent ==
    [op |-> "none",            \* the call: "emit", "flush", "worker_emit", ...
     flush_ran |-> FALSE,      \* flush was entered with a non-empty buffer
     buffered |-> <<>>,        \* the record ids in the buffer when flush was entered
     size_at_entry |-> 0,      \* the active file's size when flush was entered (-1: no file)
     index_at_entry |-> 0,     \* _current_index when flush was entered
     count_at_entry |-> 0,     \* rollover_count when flush was entered
     fs_failed |-> FALSE,      \* a file-system operation failed in the call
     triggered |-> FALSE,      \* shouldRollover returned True
     check |-> "none",         \* what is_triggered did: "estimate", "stat", "stat_failed"
     trig_at_entry |-> [last_size |-> 0, last_check |-> 0],  \* the policy before the call
     raised |-> "none",        \* the exception flush caught
     propagated |-> FALSE,     \* an exception left the call (raised by _handle_error)
     errors_at_entry |-> 0,    \* the error counter when the call was entered
     spilled |-> <<>>,         \* the record ids _handle_error wrote to a backup file
     rolled |-> FALSE,         \* doRollover ran
     rolled_name |-> NoName,   \* what get_rolled_file_name returned
     target_name |-> NoName,   \* the name the active file was renamed / compressed to
     moved |-> FALSE,          \* the rename / compression happened
     swept |-> FALSE,          \* _clean_history_files ran
     cache_hit |-> FALSE,      \* ... on the cached listing
     delete_failed |-> {},     \* the names whose os.remove failed, or that were gone
     sweep_time |-> 0,
     sweep_disk |-> <<>>,      \* the directory when the sweep returned
     files_info |-> {},        \* the listing the sweep walked
     to_delete |-> {},         \* the names the sweep decided to delete
     overwrote |-> FALSE,      \* the rename or compression replaced an existing file
     wrote |-> <<>>,           \* the record ids written to the stream
     wrote_locked |-> FALSE,   \* ... with the file lock held
     emitted |-> 0]            \* the id of the record emit was given

\* The bundle the methods below work on: the handler, its two policies, the
\* two directories and the record of what the call did.  Every method takes
\* the bundle it finds and gives the bundle it leaves.
World == [handler |-> handler, trig |-> trig, policy |-> policy, disk |-> disk,
          backup |-> backup,
          ev |-> [NoEvent EXCEPT !.errors_at_entry = handler.metrics.errors]]

\* The element of a one-element set.  Only({F(x) : x \in {e}}) is F applied to
\* the value of e: one statement after another.
Only(S) == CHOOSE x \in S : TRUE

\* TimeBasedRollingPolicy._clean_history_files at time t.  undeletable: the
\* names whose os.remove raises OSError (ignored by the code).
CleanHistoryFiles(w, t, undeletable) ==
    LET p == w.policy
        hit == p.cached /\ t - p.last_cleanup < CacheTTL
        files_info == IF hit THEN p.file_cache ELSE ScanDir(w.disk)
        p1 == IF hit THEN p
              ELSE [p EXCEPT !.cached = TRUE, !.file_cache = files_info,
                             !.last_cleanup = t]
        to_delete == FilesToDelete(SortNewestFirst(files_info), 0, t)
        removed == (to_delete \cap DOMAIN w.disk) \ undeletable
    IN [w EXCEPT !.policy = IF to_delete # {} THEN CleanCacheForce(p1, t) ELSE p1,
                 !.disk = DropFiles(@, removed),
                 !.ev.fs_failed = @ \/ to_delete \ removed # {},
                 !.ev.swept = TRUE,
                 !.ev.cache_hit = hit,
                 !.ev.delete_failed = to_delete \ removed,
                 !.ev.sweep_time = t,
                 !.ev.sweep_disk = DropFiles(w.disk, removed),
                 !.ev.files_info = files_info,
                 !.ev.to_delete = to_delete]

\* BaseLogbackHandler._handle_error: count the error, create the backup
\* directory and append the buffer's content to a backup file.
\* fail = "makedirs": os.makedirs raises OSError, which nothing catches: the
\* exception leaves _handle_error.  fail = "backup_write": the open or the
\* write raises, which is caught and ignored.
HandleError(w, fail) ==
    IF fail = "makedirs"
    THEN [w EXCEPT !.handler.metrics.errors = @ + 1,
                   !.ev.propagated = TRUE]
    ELSE IF fail = "backup_write"
    THEN [w EXCEPT !.handler.metrics.errors = @ + 1]
    ELSE [w EXCEPT !.handler.metrics.errors = @ + 1,
                   !.ev.spilled = @ \o Ids(w.handler.buffer),
                   !.backup = [i \in RecordIds |->
                                 @[i] + Cardinality({k \in 1..Len(w.handler.buffer) :
                                                       w.handler.buffer[k].id = i})]]

\* BaseLogbackHandler.doRollover at time t, first half: the stream is closed,
\* the policy names the rolled file, and the active file, if there is one, is
\* renamed to it or compressed into f"{rolled_file}.gz".  fail = "rename": the
\* rename (or the compression) raises OSError, which goes to _handle_error.
MoveActive(w, t, fail) ==
    LET g == GetRolledFileName(w.policy, t)
        exists == ActiveName \in DOMAIN w.disk
        moved == exists /\ fail # "rename"
        target == IF cfg.compress THEN AppendGz(g.name) ELSE g.name
        old == w.disk[ActiveName]
        file == IF cfg.compress
                THEN [size |-> GzSize(old.size), mtime |-> t, recs |-> old.recs]
                ELSE old
    IN [(IF exists /\ ~moved THEN HandleError(w, fail) ELSE w) EXCEPT
            !.policy = g.policy,
            !.disk = IF moved THEN PutFile(DropFiles(@, {ActiveName}), target, file)
                     ELSE @,
            !.handler.lock_held = FALSE,
            !.handler.stream = FALSE,
            !.ev.rolled = TRUE,
            !.ev.rolled_name = g.name,
            !.ev.target_name = IF moved THEN target ELSE NoName,
            !.ev.moved = moved,
            !.ev.overwrote = moved /\ target \in DOMAIN w.disk,
            !.ev.fs_failed = @ \/ (exists /\ ~moved)]

\* BaseLogbackHandler.doRollover, second half: the stream is opened again
\* (delay is False), its descriptor becomes the lock, the rollover is counted.
\* fail = "reopen": self._open() raises OSError, which leaves doRollover with
\* the stream None, the lock what it was and the rollover not counted.
Reopen(w, t, fail) ==
    IF fail = "reopen"
    THEN [w EXCEPT !.ev.raised = "OSError", !.ev.fs_failed = TRUE]
    ELSE [w EXCEPT !.disk = IF ActiveName \in DOMAIN @ THEN @
                            ELSE PutFile(@, ActiveName,
                                         [size |-> 0, mtime |-> t, recs |-> <<>>]),
                   !.handler.stream = TRUE,
                   !.handler.file_lock = "fd",
                   !.handler.metrics.rollover_count = @ + 1]

\* BaseLogbackHandler.doRollover at time t: move the active file, let the
\* policy sweep (roll_over), open the stream again.
DoRollover(w, t, fail, undeletable) ==
    Only({Reopen(w2, t, fail) :
            w2 \in {CleanHistoryFiles(w1, t, undeletable) :
                      w1 \in {MoveActive(w, t, fail)}}})

\* fcntl.flock(self._file_lock, fcntl.LOCK_EX)
LockEx(w) == [w EXCEPT !.handler.lock_held = TRUE]

\* Variant, for comparison: a write without the finally clause, which keeps
\* the lock when the write raised
LockUnNoFinally(w) ==
    IF w.ev.raised = "none" THEN [w EXCEPT !.handler.lock_held = FALSE] ELSE w

\* finally: fcntl.flock(self._file_lock, fcntl.LOCK_UN)
LockUn(w) == [w EXCEPT !.handler.lock_held = FALSE]

\* self.stream.write(self._buffer.getvalue()); self.stream.flush().
\* fail = "write": one of them raises OSError.
StreamWrite(w, t, fail) ==
    IF fail = "write"
    THEN [w EXCEPT !.ev.raised = "OSError", !.ev.fs_failed = TRUE]
    ELSE [w EXCEPT !.disk[ActiveName] =
                       [size |-> @.size + SumSizes(w.handler.buffer),
                        mtime |-> t,
                        recs |-> @.recs \o Ids(w.handler.buffer)],
                   !.ev.wrote = Ids(w.handler.buffer),
                   !.ev.wrote_locked = w.handler.lock_held]

\* self._buffer = StringIO(); self._buffer_size = 0, which an exception of the
\* write skips: it goes to _handle_error.
NewBuffer(w, fail) ==
    IF w.ev.raised # "none" THEN HandleError(w, fail)
    ELSE [w EXCEPT !.handler.buffer = <<>>, !.handler.buffer_size = 0]

\* The write of flush: flock(LOCK_EX), stream.write, stream.flush, flock(LOCK_UN),
\* then the buffer is replaced by an empty one.  With no stream only the
\* buffer is replaced.  flock(None, ...) raises TypeError before anything is
\* written; an OSError of the write goes the same way, to _handle_error.
WriteBuffer(w, t, fail) ==
    IF ~w.handler.stream
    THEN [w EXCEPT !.handler.buffer = <<>>, !.handler.buffer_size = 0]
    ELSE IF w.handler.file_lock = "None"
    THEN [HandleError(w, fail) EXCEPT !.ev.raised = "TypeError"]
    ELSE Only({NewBuffer(w3, fail) :
                 w3 \in {LockUn(w2) :
                           w2 \in {StreamWrite(w1, t, fail) : w1 \in {LockEx(w)}}}})

\* flush, its first statement: self.shouldRollover(None) at time t.
\* fail = "stat": os.path.getsize raises OSError (caught by is_triggered).
ShouldRollover(w, t, fail) ==
    LET present == ActiveName \in DOMAIN w.disk
        size == IF present /\ fail # "stat" THEN w.disk[ActiveName].size ELSE -1
        tr == IsTriggered(w.trig, NoneRecord, size, t)
    IN [w EXCEPT !.trig = tr.trig,
                 !.ev.flush_ran = TRUE,
                 !.ev.buffered = Ids(w.handler.buffer),
                 !.ev.size_at_entry = IF present THEN w.disk[ActiveName].size ELSE -1,
                 !.ev.index_at_entry = w.policy.current_index,
                 !.ev.count_at_entry = w.handler.metrics.rollover_count,
                 !.ev.fs_failed = tr.stat /\ size < 0,
                 !.ev.triggered = tr.ret,
                 !.ev.check = IF ~tr.stat THEN "estimate"
                              ELSE IF size < 0 THEN "stat_failed" ELSE "stat",
                 !.ev.trig_at_entry = w.trig,
                 !.ev.raised = IF tr.raised THEN "AttributeError" ELSE "none"]

\* flush after shouldRollover: the exception it raised goes to _handle_error;
\* otherwise doRollover if it returned True, then the write, unless an
\* exception left doRollover, which goes to _handle_error as well.
FlushRest(w, t, fail, undeletable) ==
    IF w.ev.raised = "AttributeError" THEN HandleError(w, fail)
    ELSE Only({IF w2.ev.raised = "none" THEN WriteBuffer(w2, t, fail)
               ELSE HandleError(w2, fail) :
                 w2 \in {IF w.ev.triggered THEN DoRollover(w, t, fail, undeletable)
                         ELSE w}})

\* BaseLogbackHandler.flush at time t.  fail names the file-system operation
\* that fails in this call ("none", "stat", "rename", "reopen", "write",
\* "makedirs", "backup_write").
FlushOp(w, t, fail, undeletable) ==
    IF w.handler.buffer_size = 0 THEN w
    ELSE Only({FlushRest(w1, t, fail, undeletable) :
                 w1 \in {ShouldRollover(w, t, fail)}})

\* emit after its flush: an exception that left flush is caught by emit's
\* except, which calls _handle_error once more; otherwise the record is
\* appended to the buffer and counted.
BufferRecord(w, rec, fail) ==
    IF w.ev.propagated
    THEN [HandleError(w, fail) EXCEPT !.ev.emitted = rec.id]
    ELSE [w EXCEPT !.handler.buffer = Append(@, rec),
                   !.handler.buffer_size = @ + rec.size,
                   !.handler.metrics.written_bytes = @ + rec.size,
                   !.handler.metrics.written_records = @ + 1,
                   !.ev.emitted = rec.id]

\* BaseLogbackHandler.emit of record rec at time t
EmitOp(w, rec, t, fail, undeletable) ==
    Only({BufferRecord(w1, rec, fail) :
            w1 \in {IF w.handler.buffer_size + rec.size > cfg.max_buffer_size
                    THEN FlushOp(w, t, fail, undeletable) ELSE w}})

\* The threads that call get_rolled_file_name on one policy
Threads == {1, 2}

\* ----------------------------------------------------------- initial state
\* The configurations the handler is constructed with.
Configs ==
    [max_buffer_size : {2},
     max_size : {3},
     max_history : {1},
     total_size_cap : {4},
     compress : BOOLEAN,
     pattern_has_dir : BOOLEAN,
     queue_size : {1},
     batch_size : {2}]

\* The log directory the handler finds: an unrelated file, the active file
\* (absent, so that the constructor's open creates it, or left by an earlier
\* run) and possibly a rolled file of an earlier run.
InitActive(t0) ==
    {[size |-> 0, mtime |-> t0, recs |-> <<>>],
     [size |-> 3, mtime |-> t0 - 1, recs |-> <<>>],
     [size |-> 3, mtime |-> 0, recs |-> <<>>]}

InitDisks(t0) ==
    LET base(a) == PutFile(PutFile(<<>>, OtherName,
                                   [size |-> 5, mtime |-> 0, recs |-> <<>>]),
                           ActiveName, a)
    IN {base(a) : a \in InitActive(t0)}
       \cup {PutFile(base(a), RolledName(DateOf(t0), 1, 0),
                     [size |-> 2, mtime |-> m, recs |-> <<>>]) :
                a \in InitActive(t0), m \in {0, t0 - 1}}

\* AsyncLogbackHandler.__init__: the queue, the event and the started worker
InitAsync ==
    /\ queue = <<>>
    /\ stop_event = FALSE
    /\ worker = [pc |-> "while", batch |-> <<>>, i |-> 1]
    /\ producer = [pc |-> "idle", record |-> NoRecord, steps |-> 0]
    /\ closer = [pc |-> "idle"]
    /\ hist = [enqueued_before_close |-> {}, \* ids put on the queue before close()
               backlog |-> {},       \* ids queued or batched when close() set the event
               dequeued |-> <<>>,    \* ids the worker took off the queue, in order
               passed |-> <<>>,      \* ids passed to super().emit, in order
               flushed |-> {},       \* ids whose batch was followed by flush()
               rejected |-> {}]      \* ids put_nowait refused

\* BaseLogbackHandler.__init__ and the policies' __init__, at time t0: the
\* objects, without the directory they find
InitObjects(t0) ==
    /\ handler = [buffer |-> <<>>, buffer_size |-> 0, stream |-> TRUE,
                  file_lock |-> "None", lock_held |-> FALSE,
                  metrics |-> [written_bytes |-> 0, written_records |-> 0,
                               rollover_count |-> 0, errors |-> 0]]
    /\ trig = [last_size |-> 0, last_check |-> 0]
    /\ policy = [current_date |-> DateOf(t0), current_index |-> 0,
                 cached |-> FALSE, file_cache |-> {}, last_cleanup |-> 0]
    /\ backup = [i \in RecordIds |-> 0]
    /\ now = t0
    /\ next_id = 1
    /\ last = NoEvent
    /\ callers = [lock |-> 0,
                  th |-> [t \in Threads |-> [pc |-> "idle", date |-> 0, index |-> 0]],
                  returned |-> <<>>]
\* ... and the directory
InitWriter(t0) ==
    /\ InitObjects(t0)
    /\ disk \in InitDisks(t0)

Init ==
    /\ cfg \in Configs
    /\ InitWriter(StartTime)
    /\ InitAsync

\* ------------------------------------------------------------------ actions
\* The file-system operation that fails in one call
Failures == {"none", "stat", "rename", "reopen", "write", "makedirs", "backup_write"}

\* Whether os.remove fails in the sweep of one call: the names it fails for
\* (none, or every file of the directory together with the file the call rolls to)
Undeletable(del_fails) ==
    IF del_fails
    THEN (DOMAIN disk) \cup {RolledName(DateOf(now), k, g) :
                                k \in 1..(MaxTime + 2), g \in 0..2}
    ELSE {}

SetWorld(the_w, op) ==
    \E w \in {the_w} :
        /\ handler' = w.handler
        /\ trig' = w.trig
        /\ policy' = w.policy
        /\ disk' = w.disk
        /\ backup' = w.backup
        /\ last' = [w.ev EXCEPT !.op = op]

\* time passes
Tick ==
    /\ now < MaxTime
    /\ now' = now + 1
    /\ UNCHANGED last
    /\ UNCHANGED <<cfg, callers, handler, trig, policy, disk, backup, next_id>>
    /\ UNCHANGED async_vars

\* logger.info(...) reaching BaseLogbackHandler.emit
Emit ==
    /\ next_id <= MaxRecords
    /\ handler.metrics.errors < MaxErrors
    /\ \E size \in RecSizes, fail \in Failures, del_fails \in BOOLEAN :
          SetWorld(EmitOp(World, [id |-> next_id, size |-> size], now, fail,
                          Undeletable(del_fails)), "emit")
    /\ next_id' = next_id + 1
    /\ UNCHANGED <<cfg, callers, now>>
    /\ UNCHANGED async_vars

\* BaseLogbackHandler.flush called directly
Flush ==
    /\ handler.metrics.errors < MaxErrors
    /\ \E fail \in Failures, del_fails \in BOOLEAN :
          SetWorld(FlushOp(World, now, fail, Undeletable(del_fails)), "flush")
    /\ UNCHANGED <<cfg, callers, now, next_id>>
    /\ UNCHANGED async_vars

Next == Tick \/ Emit \/ Flush

Spec == Init /\ [][Next]_vars

\* ------------------------------------------------------ asynchronous handler
\* Variant, for comparison: emit with a blocking put: the producer waits for room in the queue
AsyncEmitPutBlocking ==
    /\ producer.pc = "idle"
    /\ next_id <= MaxRecords
    /\ Len(queue) < cfg.queue_size
    /\ \E size \in AsyncRecSizes :
          /\ queue' = Append(queue, [id |-> next_id, size |-> size])
          /\ hist' = [hist EXCEPT !.enqueued_before_close =
                         IF stop_event THEN @ ELSE @ \cup {next_id}]
    /\ producer' = [pc |-> "idle", record |-> NoRecord, steps |-> 1]
    /\ next_id' = next_id + 1
    /\ UNCHANGED <<cfg, callers, now, stop_event, worker, closer, last>>
    /\ UNCHANGED writer_vars

\* AsyncLogbackHandler.emit, first step: self._queue.put_nowait(record).
\* Queue.Full sends the producer to _handle_error.
AsyncEmitPut ==
    /\ producer.pc = "idle"
    /\ next_id <= MaxRecords
    /\ \E size \in AsyncRecSizes :
          LET rec == [id |-> next_id, size |-> size]
          IN IF Len(queue) < cfg.queue_size
             THEN /\ queue' = Append(queue, rec)
                  /\ hist' = [hist EXCEPT !.enqueued_before_close =
                                 IF stop_event THEN @ ELSE @ \cup {rec.id}]
                  /\ producer' = [pc |-> "idle", record |-> NoRecord, steps |-> 1]
             ELSE /\ producer' = [pc |-> "handle_error", record |-> rec, steps |-> 1]
                  /\ UNCHANGED <<queue, hist>>
    /\ next_id' = next_id + 1
    /\ UNCHANGED last
    /\ UNCHANGED <<cfg, callers, now, stop_event, worker, closer>>
    /\ UNCHANGED writer_vars

\* AsyncLogbackHandler.emit, the except Full branch: self._handle_error()
AsyncEmitHandleError ==
    /\ producer.pc = "handle_error"
    /\ \E fail \in {"none", "makedirs", "backup_write"} :
          SetWorld([HandleError(World, fail) EXCEPT !.ev.emitted = producer.record.id],
                   "async_reject")
    /\ producer' = [pc |-> "idle", record |-> NoRecord, steps |-> producer.steps + 1]
    /\ hist' = [hist EXCEPT !.rejected = @ \cup {producer.record.id}]
    /\ UNCHANGED <<cfg, callers, now, next_id, queue, stop_event, worker, closer>>

\* Variant, for comparison: a loop that stops as soon as the event is set
WorkerRunningAbrupt == ~stop_event

\* The loop condition of _async_writer
WorkerRunning == ~stop_event \/ queue # <<>>

\* _async_writer: while not self._stop_event.is_set() or not self._queue.empty()
WorkerWhile ==
    /\ worker.pc = "while"
    /\ worker' = [worker EXCEPT !.pc = IF WorkerRunning THEN "get" ELSE "done"]
    /\ UNCHANGED last
    /\ UNCHANGED <<cfg, callers, now, next_id, queue, stop_event, producer, closer, hist>>
    /\ UNCHANGED writer_vars

\* _async_writer: record = self._queue.get(timeout=0.1); batch.append(record).
\* On an empty queue the wait times out: Empty is caught, batch = [], continue.
WorkerGet ==
    /\ worker.pc = "get"
    /\ IF queue # <<>>
       THEN /\ queue' = Tail(queue)
            /\ worker' = [worker EXCEPT !.pc = "check",
                                        !.batch = Append(@, Head(queue))]
       ELSE /\ worker' = [worker EXCEPT !.pc = "while", !.batch = <<>>]
            /\ UNCHANGED queue
    /\ hist' = [hist EXCEPT !.dequeued = IF queue # <<>> THEN Append(@, Head(queue).id)
                                         ELSE @]
    /\ UNCHANGED last
    /\ UNCHANGED <<cfg, callers, now, next_id, stop_event, producer, closer>>
    /\ UNCHANGED writer_vars

\* _async_writer: if len(batch) >= self._batch_size or self._queue.empty()
WorkerCheck ==
    /\ worker.pc = "check"
    /\ worker' = [worker EXCEPT
                    !.pc = IF Len(worker.batch) >= cfg.batch_size \/ queue = <<>>
                           THEN "emit" ELSE "while",
                    !.i = 1]
    /\ UNCHANGED last
    /\ UNCHANGED <<cfg, callers, now, next_id, queue, stop_event, producer, closer, hist>>
    /\ UNCHANGED writer_vars

\* _async_writer: for rec in batch: super().emit(rec)  (one record a step).
\* An exception that leaves emit is caught by the loop's except: batch = [],
\* continue.
WorkerEmit ==
    /\ worker.pc = "emit"
    /\ \E fail \in Failures, del_fails \in BOOLEAN :
          SetWorld(EmitOp(World, worker.batch[worker.i], now, fail,
                          Undeletable(del_fails)), "worker_emit")
    /\ worker' = IF last'.propagated
                 THEN [pc |-> "while", batch |-> <<>>, i |-> 1]
                 ELSE [worker EXCEPT
                         !.pc = IF worker.i = Len(worker.batch) THEN "flush" ELSE "emit",
                         !.i = @ + 1]
    /\ hist' = [hist EXCEPT !.passed = Append(@, worker.batch[worker.i].id)]
    /\ UNCHANGED <<cfg, callers, now, next_id, queue, stop_event, producer, closer>>

\* _async_writer: self.flush(); batch = []
WorkerFlush ==
    /\ worker.pc = "flush"
    /\ \E fail \in Failures, del_fails \in BOOLEAN :
          SetWorld(FlushOp(World, now, fail, Undeletable(del_fails)),
                   "worker_flush")
    /\ worker' = [pc |-> "while", batch |-> <<>>, i |-> 1]
    /\ hist' = [hist EXCEPT !.flushed = @ \cup {worker.batch[k].id :
                                                  k \in 1..Len(worker.batch)}]
    /\ UNCHANGED <<cfg, callers, now, next_id, queue, stop_event, producer, closer>>

\* AsyncLogbackHandler.close: self._stop_event.set()
CloseSetStop ==
    /\ closer.pc = "idle"
    /\ stop_event' = TRUE
    /\ closer' = [closer EXCEPT !.pc = "join"]
    /\ hist' = [hist EXCEPT !.backlog = SeqToSet(Ids(queue))
                                          \cup SeqToSet(Ids(worker.batch))]
    /\ UNCHANGED last
    /\ UNCHANGED <<cfg, callers, now, next_id, queue, worker, producer>>
    /\ UNCHANGED writer_vars

\* AsyncLogbackHandler.close: self._worker.join() returns once the worker ended
CloseJoin ==
    /\ closer.pc = "join"
    /\ worker.pc = "done"
    /\ closer' = [closer EXCEPT !.pc = "super_close"]
    /\ UNCHANGED last
    /\ UNCHANGED <<cfg, callers, now, next_id, queue, stop_event, worker, producer, hist>>
    /\ UNCHANGED writer_vars

\* AsyncLogbackHandler.close: super().close(), which flushes and then closes
\* the stream.
CloseSuper ==
    /\ closer.pc = "super_close"
    /\ \E fail \in Failures, del_fails \in BOOLEAN :
          SetWorld([FlushOp(World, now, fail, Undeletable(del_fails))
                        EXCEPT !.handler.stream = FALSE], "close_super")
    /\ closer' = [closer EXCEPT !.pc = "closed"]
    /\ UNCHANGED <<cfg, callers, now, next_id, queue, stop_event, worker, producer, hist>>

Worker == WorkerWhile \/ WorkerGet \/ WorkerCheck \/ WorkerEmit \/ WorkerFlush
Close == CloseSetStop \/ CloseJoin \/ CloseSuper

AsyncNext ==
    \/ Tick
    \/ AsyncEmitPut
    \/ AsyncEmitHandleError
    \/ WorkerWhile
    \/ WorkerGet
    \/ WorkerCheck
    \/ WorkerEmit
    \/ WorkerFlush
    \/ CloseSetStop
    \/ CloseJoin
    \/ CloseSuper

\* The asynchronous handler is checked from fewer starting points: the pattern
\* LogbackConfigurator passes (a path, which matches no entry name), no
\* compression, a directory with a fresh active file or with one an earlier
\* run left full, and the clock one tick before its end.
AsyncInit ==
    /\ cfg \in {c \in Configs : ~c.compress /\ c.pattern_has_dir}
    /\ InitWriter(MaxTime - 1)
    /\ DOMAIN disk = {ActiveName, OtherName}
    /\ disk[ActiveName].mtime # 0
    /\ InitAsync

\* The asynchronous handler: producer, worker and closer threads interleaved
AsyncSpec == AsyncInit /\ [][AsyncNext]_vars

\* ... with the worker thread and the thread inside close() scheduled fairly
AsyncFairSpec == AsyncSpec /\ WF_vars(Worker) /\ WF_vars(CloseJoin \/ CloseSuper)

\* ------------------------------------------------------ the sweep on its own
\* TimeBasedRollingPolicy.roll_over called on a directory that holds up to
\* three rolled files of any sizes, written in the last two ticks.
SweepNames == {RolledName(DateOf(StartTime), k, 0) : k \in 1..3}

SweepFiles == [size : 1..3, mtime : {StartTime - 1, StartTime}, recs : {<<>>}]

SweepDisks == UNION {[S -> SweepFiles] : S \in SUBSET SweepNames}

SweepInit ==
    /\ cfg \in {c \in Configs : ~c.compress /\ ~c.pattern_has_dir}
    /\ InitObjects(StartTime)
    /\ disk \in SweepDisks
    /\ InitAsync

\* policy.roll_over(active_file)
RollOver ==
    /\ \E del_fails \in BOOLEAN :
          SetWorld(CleanHistoryFiles(World, now, Undeletable(del_fails)), "roll_over")
    /\ UNCHANGED <<cfg, callers, now, next_id>>
    /\ UNCHANGED async_vars

SweepNext == Tick \/ RollOver

SweepSpec == SweepInit /\ [][SweepNext]_vars

\* ------------------------------------- get_rolled_file_name, thread by thread
\* TimeBasedRollingPolicy.get_rolled_file_name, one statement a step, called by
\* the threads of Threads on one policy while time passes.  callers.lock is
\* _cache_lock (0: free, else the thread that holds it); a thread's date and
\* index are its local values.
policy_rest == <<cfg, handler, trig, disk, backup, now, next_id, last>>

\* Variant, for comparison: no lock around the body
CacheLockFreeAlways == TRUE

\* with self._cache_lock: the lock can be taken
CacheLockFree == callers.lock = 0

\* the call begins: with self._cache_lock
CallAcquire ==
    \E t \in Threads :
        /\ callers.th[t].pc = "idle"
        /\ Len(callers.returned) + Cardinality({u \in Threads : callers.th[u].pc # "idle"})
              < MaxCalls
        /\ CacheLockFree
        /\ callers' = [callers EXCEPT !.lock = t, !.th[t].pc = "date"]
        /\ UNCHANGED policy
        /\ UNCHANGED policy_rest
        /\ UNCHANGED async_vars

\* current_date = datetime.now().strftime('%Y-%m-%d')
CallDate ==
    \E t \in Threads :
        /\ callers.th[t].pc = "date"
        /\ callers' = [callers EXCEPT !.th[t].pc = "check", !.th[t].date = DateOf(now)]
        /\ UNCHANGED policy
        /\ UNCHANGED policy_rest
        /\ UNCHANGED async_vars

\* if current_date != self._current_date: set the date, self._current_index = 0
CallCheck ==
    \E t \in Threads :
        /\ callers.th[t].pc = "check"
        /\ policy' = IF callers.th[t].date # policy.current_date
                     THEN [policy EXCEPT !.current_date = callers.th[t].date,
                                         !.current_index = 0]
                     ELSE policy
        /\ callers' = [callers EXCEPT !.th[t].pc = "load"]
        /\ UNCHANGED policy_rest
        /\ UNCHANGED async_vars

\* self._current_index += 1, the read
CallLoad ==
    \E t \in Threads :
        /\ callers.th[t].pc = "load"
        /\ callers' = [callers EXCEPT !.th[t].pc = "store",
                                      !.th[t].index = policy.current_index]
        /\ UNCHANGED policy
        /\ UNCHANGED policy_rest
        /\ UNCHANGED async_vars

\* self._current_index += 1, the write
CallStore ==
    \E t \in Threads :
        /\ callers.th[t].pc = "store"
        /\ policy' = [policy EXCEPT !.current_index = callers.th[t].index + 1]
        /\ callers' = [callers EXCEPT !.th[t].pc = "return"]
        /\ UNCHANGED policy_rest
        /\ UNCHANGED async_vars

\* return f"{active_file}.{self._current_date}.{self._current_index}[.gz]",
\* leaving the with block
CallReturn ==
    \E t \in Threads :
        /\ callers.th[t].pc = "return"
        /\ callers' = [callers EXCEPT
                         !.th[t].pc = "idle",
                         !.lock = IF @ = t THEN 0 ELSE @,
                         !.returned = Append(@,
                             [by |-> t,
                              name |-> RolledName(policy.current_date,
                                                  policy.current_index,
                                                  IF cfg.compress THEN 1 ELSE 0)])]
        /\ UNCHANGED policy
        /\ UNCHANGED policy_rest
        /\ UNCHANGED async_vars

PolicyInit ==
    /\ cfg \in {c \in Configs : ~c.pattern_has_dir}
    /\ InitObjects(StartTime)
    /\ disk = <<>>
    /\ InitAsync

PolicyNext ==
    \/ Tick
    \/ CallAcquire
    \/ CallDate
    \/ CallCheck
    \/ CallLoad
    \/ CallStore
    \/ CallReturn

PolicySpec == PolicyInit /\ [][PolicyNext]_vars

\* =============================================================== properties
ActiveRecs == IF ActiveName \in DOMAIN disk THEN SeqToSet(disk[ActiveName].recs) ELSE {}

RECURSIVE TotalSize(_, _)
TotalSize(d, names) ==
    IF names = {} THEN 0
    ELSE LET n == CHOOSE x \in names : TRUE
         IN d[n].size + TotalSize(d, names \ {n})

\* The sum of the sizes of the files of directory d that match the pattern
MatchingTotal(d) == TotalSize(d, {n \in DOMAIN d : PatternMatch(n)})

\* C1: when emit returns, _buffer_size is at most the configured maximum
\* buffer size.
C1_BufferBoundedAfterEmit ==
    last.op = "emit" => handler.buffer_size <= cfg.max_buffer_size

\* C2: when a synchronous logging call returns, the active file exists and
\* holds the record just logged.
C2_RecordInFileAfterEmit ==
    last.op = "emit" =>
        /\ ActiveName \in DOMAIN disk
        /\ last.emitted \in ActiveRecs

\* C3: a flush entered with a non-empty buffer in which no file-system
\* operation fails writes the whole buffer to the active file with the lock
\* held and leaves the buffer empty.
C3_FlushWritesAndEmpties ==
    (last.op = "flush" /\ last.flush_ran /\ ~last.fs_failed) =>
        /\ last.wrote = last.buffered
        /\ last.wrote_locked
        /\ handler.buffer_size = 0
        /\ handler.buffer = <<>>

\* C4: a flush entered with a non-empty buffer once the active file's real size
\* or the policy's estimate has reached max_size, and in which no file-system
\* operation fails, performs exactly one rollover (rollover_count and the
\* sequence index each grow by one) and writes the buffer to the new file.
C4_FlushRollsOverOnce ==
    (/\ last.op = "flush" /\ last.flush_ran /\ ~last.fs_failed
     /\ last.size_at_entry >= cfg.max_size) =>
        /\ last.rolled
        /\ handler.metrics.rollover_count = last.count_at_entry + 1
        /\ policy.current_index = last.index_at_entry + 1
        /\ last.wrote = last.buffered

\* C5: a rollover that moved the active file left it under exactly the name
\* get_rolled_file_name returned.
C5_RolledUnderReturnedName ==
    (last.rolled /\ last.moved) => last.target_name = last.rolled_name

\* C6: when a retention sweep returns (and none of its deletions failed), the
\* sizes of the files of the directory that match the pattern sum to at most
\* total_size_cap.
C6_SweepKeepsWithinCap ==
    (last.swept /\ last.delete_failed = {}) =>
        MatchingTotal(last.sweep_disk) <= cfg.total_size_cap

DiskRecs == UNION {SeqToSet(disk[n].recs) : n \in DOMAIN disk}

\* C8: a record AsyncLogbackHandler.emit could not enqueue is in a backup file
\* and in no file of the log directory.
C8_RejectedRecordSpilled ==
    \A id \in hist.rejected : backup[id] >= 1 /\ id \notin DiskRecs

\* C9: AsyncLogbackHandler.emit never waits: whatever the queue holds and
\* wherever the worker and the closing thread are, the producer's next step can
\* be taken, and a call takes at most two steps.
C9_EmitNeverBlocks ==
    /\ (producer.pc = "idle" /\ next_id <= MaxRecords) => ENABLED AsyncEmitPut
    /\ producer.pc = "handle_error" => ENABLED AsyncEmitHandleError
    /\ producer.steps <= 2

\* emit returned through _handle_error, the queue being full, while the worker
\* was about to flush
C9_Witness ==
    /\ last.op = "async_reject"
    /\ Len(queue) = cfg.queue_size
    /\ worker.pc = "flush"

\* The safety half of C10
DrainedBeforeExit ==
    /\ worker.pc = "done" =>
          hist.enqueued_before_close \subseteq (SeqToSet(hist.passed) \cap hist.flushed)
    /\ closer.pc = "closed" => worker.pc = "done"
    /\ last.op = "close_super" => worker.pc = "done"

\* C10: when the worker ends, every record enqueued before close() was passed
\* to the writer's emit and followed by a flush; the writer is closed only
\* after the worker ended; and close(), once called, returns.
C10_GracefulDrain ==
    /\ []DrainedBeforeExit
    /\ stop_event ~> closer.pc = "closed"

\* close() returned after the worker drained records that were still queued
\* when close() was called
C10_Witness ==
    /\ closer.pc = "closed"
    /\ hist.backlog # {}
    /\ hist.backlog \subseteq hist.flushed

\* C11: no exception leaves emit or flush, whatever file-system operation
\* fails in the call; _handle_error never raises.
C11_RecoveryNeverRaises ==
    last.op \in {"emit", "flush"} => ~last.propagated

\* C12: the stream is written only with the file lock held, and the lock is
\* not held when a call into the handler has returned.
C12_WriteOnlyLocked ==
    /\ last.wrote # <<>> => last.wrote_locked
    /\ ~handler.lock_held

\* a flush whose write failed after the lock was taken
C12_Witness ==
    /\ last.op = "flush"
    /\ last.raised = "OSError"
    /\ ~last.rolled
    /\ handler.file_lock = "fd"
    /\ handler.stream

\* C13: in async mode a producer thread's emit neither writes the handler's
\* metrics nor reads its buffer: when the call has returned, the error counter
\* is what it was and nothing of the buffer was copied to a backup file.
C13_ProducerLeavesWriterAlone ==
    last.op = "async_reject" =>
        /\ handler.metrics.errors = last.errors_at_entry
        /\ last.spilled = <<>>

\* C14: a flush in which the write or the reopening of the stream failed has
\* spilled the buffered records to a backup file, has counted exactly one
\* error and leaves an empty buffer.
C14_FailedFlushSpillsAndResets ==
    (last.op = "flush" /\ last.raised = "OSError") =>
        /\ last.spilled = last.buffered
        /\ handler.metrics.errors = last.errors_at_entry + 1
        /\ handler.buffer = <<>>
        /\ handler.buffer_size = 0

\* C15: among the files a sweep walked, a file that is kept has no deleted
\* file newer than it: the kept files are the newest ones.
C15_NewestPreferred ==
    last.swept =>
        \A a, b \in last.files_info :
            (a.mtime > b.mtime /\ b.name \notin last.to_delete) =>
                a.name \notin last.to_delete

\* The names returned so far that carry date d
ReturnedOn(d, n) ==
    {i \in 1..n : callers.returned[i].name.date = d}

\* C16: the names concurrent get_rolled_file_name calls return are pairwise
\* distinct, and the k-th name returned for a date carries index k.
C16_NamesDistinctAndDense ==
    /\ \A i, j \in 1..Len(callers.returned) :
          i # j => callers.returned[i].name # callers.returned[j].name
    /\ \A i \in 1..Len(callers.returned) :
          callers.returned[i].name.index =
              Cardinality(ReturnedOn(callers.returned[i].name.date, i))

\* both threads were given names, some before and one after the date changed
C16_Witness ==
    /\ Len(callers.returned) = MaxCalls
    /\ {callers.returned[i].by : i \in 1..MaxCalls} = Threads
    /\ Cardinality({callers.returned[i].name.date : i \in 1..MaxCalls}) = 2
    /\ callers.returned[MaxCalls].name.index = 1

\* C17: a call of is_triggered made by flush less than check_interval after
\* the last real check returns a value, leaves the timer, adds at least the
\* overhead to the estimate and answers by the estimate; a later call that
\* stats the file sets the estimate to the real size, moves the timer and
\* answers by the real size; one whose stat fails answers False and leaves
\* the policy as it was.
C17_IsTriggeredContract ==
    last.flush_ran =>
        /\ last.check = "estimate" =>
              /\ last.raised # "AttributeError"
              /\ trig.last_check = last.trig_at_entry.last_check
              /\ trig.last_size >= last.trig_at_entry.last_size + Overhead
              /\ last.triggered = (trig.last_size >= cfg.max_size)
        /\ last.check = "stat" =>
              /\ trig.last_size = last.size_at_entry
              /\ trig.last_check - last.trig_at_entry.last_check >= CheckInterval
              /\ last.triggered = (last.size_at_entry >= cfg.max_size)
        /\ last.check = "stat_failed" =>
              /\ trig = last.trig_at_entry
              /\ ~last.triggered

\* C18: a flush that leaves the buffer empty has written the content the
\* buffer had on entry to the active stream in that same flush.
C18_NoSilentDiscard ==
    (last.flush_ran /\ last.buffered # <<>> /\ handler.buffer = <<>>)
        => last.wrote = last.buffered

\* C19: the name a rollover renames or compresses the active file to is not
\* the name of a file already in the directory, also for the first rollover
\* of a newly constructed policy next to rolled files of an earlier run.
C19_RolloverNeverOverwrites ==
    (last.rolled /\ last.moved) => ~last.overwrote

\* C20: the records the consumer has passed to the writer's emit, followed by
\* the records of its batch not passed yet, are the records it has dequeued,
\* each once and in the order they left the queue; the batch never holds more
\* than batch_size records.
C20_DequeuedPassedOnceInOrder ==
    /\ Len(worker.batch) <= cfg.batch_size
    /\ hist.passed \o SubSeq(Ids(worker.batch), worker.i, Len(worker.batch))
          = hist.dequeued

====
